---- MODULE Spec2Model ----
(***************************************************************************)
(* Model of allmydata/version_checks.py: the one-time build of the         *)
(* package catalog (_get_package_versions_and_locations), the cross-check  *)
(* of the imported versions against pkg_resources (_cross_check), and the  *)
(* two read accessors get_package_versions / get_package_versions_string.  *)
(*                                                                         *)
(* Every Python value that can be None, a version string, a path or a      *)
(* comment is a sequence of strings, so that all of them can be compared:  *)
(*   a version string "1.2.0"  is <<"1", "2", "0">> (dot-separated parts), *)
(*   a path "/lnk/nevow"        is <<"lnk", "nevow">> (components),        *)
(*   None                       is <<"None">>.                             *)
(***************************************************************************)
EXTENDS Naturals, Sequences, FiniteSets, TLC

VARIABLES
    pc,                          \* position of the module-level build / process
    pkg_resources_vers_and_locs, \* dict name.lower() -> <<version, location>>
    packages,                    \* list of [name, ver, loc, comment]
    extra_packages,              \* list built at lines 366-370
    pr_seen,                     \* keys already visited by the iteritems() loop
    idx,                         \* 1-based position of _cross_check's for loop
    errors,                      \* _cross_check's local list of warnings
    norm_calls,                  \* arguments normalized_version was called with
    cross_check_errors,          \* local of _get_package_versions_and_locations
    _vers_and_locs_list,         \* module global (line 378)
    _cross_check_errors,         \* module global (line 378)
    ret                          \* value returned by the last accessor call

vars == <<pc, pkg_resources_vers_and_locs, packages, extra_packages, pr_seen, idx,
          errors, norm_calls, cross_check_errors, _vers_and_locs_list,
          _cross_check_errors, ret>>

-----------------------------------------------------------------------------
(* Bounds of the model. *)

\* Number of entries of package_imports (after the application's own entry).
MaxDeps == 2
\* Number of distributions pkg_resources.require() returns.
MaxDists == 2

-----------------------------------------------------------------------------
(* Values. *)

None == <<"None">>
Unknown == <<"unknown">>

V12 == <<"1", "2">>
V120 == <<"1", "2", "0">>
V13 == <<"1", "3">>
\* not a version in any grammar verlib knows
VIrrational == <<"1", "x">>
\* a string on which the normalizer itself breaks (any non-Irrational error)
VBreaks == <<"1", "!">>

Digits == {"0", "1", "2", "3"}

\* __appname__ (allmydata/__init__.py)
AppName == "tahoe-lafs"

\* str.lower() on the names the model uses.
Lower(s) ==
    CASE s = "Nevow" -> "nevow"
      [] s = "OpenSSL" -> "openssl"
      [] OTHER -> s

\* _auto_deps.not_import_versionable and _auto_deps.ignorable
not_import_versionable == {"mock", "pyasn1"}
ignorable == {"distribute", "pyutil"}

-----------------------------------------------------------------------------
(* os.path on POSIX.  "/lnk" is a symbolic link to "/x". *)

SymlinkTarget(c) == IF c = "lnk" THEN "x" ELSE c

RECURSIVE DropDots(_)
DropDots(p) ==
    IF p = <<>> THEN <<>>
    ELSE IF Head(p) = "." THEN DropDots(Tail(p))
    ELSE <<Head(p)>> \o DropDots(Tail(p))

\* os.path.normpath: collapses "." components
normpath(p) == DropDots(p)

\* os.path.realpath: resolves symbolic links, returns a normalized absolute path
realpath(p) == normpath([i \in 1..Len(p) |-> SymlinkTarget(p[i])])

\* os.path.normcase is the identity on POSIX
normcase(p) == p

dirname(p) == SubSeq(p, 1, Len(p) - 1)

\* package_dir (lines 282-283)
package_dir(srcfile) == dirname(dirname(normcase(realpath(srcfile))))

-----------------------------------------------------------------------------
(* allmydata/util/verlib.py, as far as version_checks.py relies on it.     *)

RECURSIVE StripTrailingZeros(_)
StripTrailingZeros(v) ==
    IF Len(v) > 1 /\ v[Len(v)] = "0"
    THEN StripTrailingZeros(SubSeq(v, 1, Len(v) - 1))
    ELSE v

\* verlib.NormalizedVersion(verlib.suggest_normalized_version(verstr) or verstr):
\* a dotted-number string parses, and trailing zero parts do not count
\* ("1.2" == "1.2.0"); a string outside the grammar is irrational; on
\* VBreaks the parser fails with some other StandardError.
VerlibParse(verstr) ==
    IF \E i \in 1..Len(verstr) : verstr[i] = "!"
    THEN [kind |-> "error", norm |-> None, exc |-> <<"ValueError", "invalid literal">>]
    ELSE IF \A i \in 1..Len(verstr) : verstr[i] \in Digits
    THEN [kind |-> "ok", norm |-> StripTrailingZeros(verstr), exc |-> None]
    ELSE [kind |-> "irrational", norm |-> None, exc |-> <<"IrrationalVersionError", "">>]

\* normalized_version (lines 61-71): IrrationalVersionError passes through,
\* any other StandardError is re-raised under its own class carrying the
\* PackagingError "could not parse ..." as its value.
normalized_version(verstr) ==
    LET r == VerlibParse(verstr) IN
    IF r.kind = "error"
    THEN [r EXCEPT !.exc = <<r.exc[1], "could not parse">> \o verstr]
    ELSE r

-----------------------------------------------------------------------------
(* _cross_check (lines 88-158), one iteration of its for loop.             *)
(* The outcome of an iteration is the warnings it appends, the arguments   *)
(* it passes to normalized_version, and whether it raises.                 *)

Warning(kind, name, args) == [kind |-> kind, name |-> name, args |-> args]

Outcome(errs, calls) == [errs |-> errs, calls |-> calls, raised |-> FALSE]
Raises(calls) == [errs |-> <<>>, calls |-> calls, raised |-> TRUE]

\* line 94
not_pkg_resourceable == {"python", "platform", Lower(AppName), "openssl"}

\* SameLocation without os.path.realpath: the paths as given
SameLocationAsGiven(pr_loc, imp_loc) == normpath(pr_loc) = normpath(imp_loc)

\* lines 102 and 153: the two locations are the same directory
SameLocation(pr_loc, imp_loc) ==
    normpath(realpath(pr_loc)) = normpath(realpath(imp_loc))

\* DistributeMatches comparing the paths as given
DistributeMatchesAsGiven(pr_loc, imp_loc, imp_comment) ==
    pr_loc = imp_loc /\ imp_comment = <<"distribute">>

\* lines 102-103
DistributeMatches(pr_loc, imp_loc, imp_comment) ==
    SameLocation(pr_loc, imp_loc) /\ imp_comment = <<"distribute">>

\* lines 101-107: 'setuptools' is not a key but 'distribute' is.
\* os.path.realpath(None) raises (AttributeError) at line 102.
SetuptoolsAsDistribute(pr_ver, pr_loc, e) ==
    IF e.loc = None
    THEN Raises(<<>>)
    ELSE IF ~DistributeMatches(pr_loc, e.loc, e.comment)
    THEN Outcome(<<Warning("setuptools_is_distribute_elsewhere", "setuptools",
                           <<pr_ver, pr_loc, e.ver, e.comment, e.loc>>)>>, <<>>)
    ELSE Outcome(<<>>, <<>>)

\* NotFound without the "continue" of line 111 taking effect before the
\* unknown-version check
NotFoundThenUnknown(name, e) ==
    Outcome(<<Warning("not_found_by_pkg_resources", name, <<e.ver, e.loc>>)>>
            \o (IF e.ver = Unknown
                THEN <<Warning("could_not_find_version", name, <<e.loc, None, None>>)>>
                ELSE <<>>),
            <<>>)

\* lines 108-111
NotFound(name, e) ==
    Outcome(<<Warning("not_found_by_pkg_resources", name, <<e.ver, e.loc>>)>>, <<>>)

\* lines 99-111: name is not a key of pkg_resources_vers_and_locs
MissingFromManifest(m, name, e) ==
    IF name = "setuptools" /\ "distribute" \in DOMAIN m
    THEN SetuptoolsAsDistribute(m["distribute"][1], m["distribute"][2], e)
    ELSE NotFound(name, e)

\* ImportFailed testing the location the wrong way round
ImportFailedWithLocation(imp_ver, imp_loc) == imp_ver = None /\ imp_loc # None

\* line 114
ImportFailed(imp_ver, imp_loc) == imp_ver = None /\ imp_loc = None

\* IdenticalVersions that short-circuits only on versions verlib can parse
IdenticalVersionsIfParsable(pr_ver, imp_ver) ==
    imp_ver # Unknown /\ pr_ver = imp_ver /\ VerlibParse(pr_ver).kind = "ok"

\* line 122
IdenticalVersions(pr_ver, imp_ver) == imp_ver # Unknown /\ pr_ver = imp_ver

\* OnNormalizeFailure without the "except verlib.IrrationalVersionError"
\* clauses: the exception leaves _cross_check
OnNormalizeFailurePropagates(n, calls, w) ==
    IF n.kind = "irrational" THEN Raises(calls) ELSE Outcome(<<w>>, calls)

\* lines 127-134 and 144-150: normalized_version raised n; w is the warning
\* the "except Exception" clause formats
OnNormalizeFailure(n, calls, w) ==
    IF n.kind = "irrational" THEN Outcome(<<>>, calls) ELSE Outcome(<<w>>, calls)

\* UnknownImportVersion without the not_import_versionable allow-list
UnknownImportVersionAlways(name, imp_loc, pr_ver, pr_loc) ==
    <<Warning("could_not_find_version", name, <<imp_loc, pr_ver, pr_loc>>)>>

\* lines 136-140
UnknownImportVersion(name, imp_loc, pr_ver, pr_loc) ==
    IF name \notin not_import_versionable
    THEN <<Warning("could_not_find_version", name, <<imp_loc, pr_ver, pr_loc>>)>>
    ELSE <<>>

\* VersionsDisagree with "and" for "or"
VersionsDisagreeAnd(pr_ver, pr_normver, imp_normver) ==
    pr_ver = Unknown /\ pr_normver # imp_normver

\* line 152
VersionsDisagree(pr_ver, pr_normver, imp_normver) ==
    pr_ver = Unknown \/ pr_normver # imp_normver

\* lines 152-156
Mismatch(name, pr_ver, pr_normver, pr_loc, imp_ver, imp_normver, imp_loc) ==
    IF VersionsDisagree(pr_ver, pr_normver, imp_normver) /\ ~SameLocation(pr_loc, imp_loc)
    THEN <<Warning("version_mismatch", name,
                   <<pr_ver, pr_normver, pr_loc, imp_ver, imp_normver, imp_loc>>)>>
    ELSE <<>>

\* lines 125-156
CompareNormalized(name, pr_ver, pr_loc, e) ==
    LET pr_n == normalized_version(pr_ver)
        imp_n == normalized_version(e.ver)
    IN  IF pr_n.kind # "ok"
        THEN OnNormalizeFailure(pr_n, <<pr_ver>>,
                 Warning("pr_version_unparsable", name,
                         <<pr_ver, e.ver, e.loc, pr_loc, pr_n.exc>>))
        ELSE IF e.ver = Unknown
        THEN Outcome(UnknownImportVersion(name, e.loc, pr_ver, pr_loc), <<pr_ver>>)
        ELSE IF imp_n.kind # "ok"
        THEN OnNormalizeFailure(imp_n, <<pr_ver, e.ver>>,
                 Warning("imp_version_unparsable", name,
                         <<e.ver, e.loc, pr_ver, pr_loc, imp_n.exc>>))
        ELSE Outcome(Mismatch(name, pr_ver, pr_n.norm, pr_loc, e.ver, imp_n.norm, e.loc),
                     <<pr_ver, e.ver>>)

\* lines 113-156: name is a key of pkg_resources_vers_and_locs
PresentInManifest(name, pr_ver, pr_loc, e) ==
    IF ImportFailed(e.ver, e.loc)
    THEN Outcome(<<Warning("could_not_be_imported", name, <<pr_ver, pr_loc, e.comment>>)>>,
                 <<>>)
    ELSE IF IdenticalVersions(pr_ver, e.ver)
    THEN Outcome(<<>>, <<>>)
    ELSE CompareNormalized(name, pr_ver, pr_loc, e)

\* lines 96-156: the body of the for loop, for the entry e
CrossCheckEntry(m, e) ==
    LET name == Lower(e.name) IN
    IF name \in not_pkg_resourceable
    THEN Outcome(<<>>, <<>>)
    ELSE IF name \notin DOMAIN m
    THEN MissingFromManifest(m, name, e)
    ELSE PresentInManifest(name, m[name][1], m[name][2], e)

-----------------------------------------------------------------------------
(* The environment _get_package_versions_and_locations runs in.            *)

\* Project names pkg_resources.require(install_requires) may report, and
\* for each the <<version, location>> pairs it may report.
ProjectNames == {"Nevow", "setuptools", "distribute", "mock", "pycparser"}

Distributions(project_name) ==
    CASE project_name = "Nevow" ->
             {V120, V13, Unknown, VIrrational, VBreaks} \X {<<"lnk">>, <<"y">>}
      [] project_name = "distribute" -> {<<V120, <<"lnk">>>>}
      [] OTHER -> {<<V13, <<"lnk">>>>}

\* The results of pkg_resources.require(): project_name -> <<version, location>>
RequireResults ==
    UNION { { d \in [S -> UNION {Distributions(n) : n \in S}] :
                \A n \in S : d[n] \in Distributions(n) } :
            S \in {T \in SUBSET ProjectNames : Cardinality(T) <= MaxDists} }

\* package_imports declares some of these (pkgname, modulename) pairs, in
\* this order; the modulename of the last three is None.
DeclOrder == <<"python", "platform", "Nevow", "OpenSSL", "setuptools", "mock">>
ModulePackages == {"Nevow", "setuptools", "mock"}
PseudoPackages == {"python", "platform", "OpenSSL"}

Position(pkgname) == CHOOSE i \in 1..Len(DeclOrder) : DeclOrder[i] = pkgname

\* What __import__(modulename) may yield when it succeeds: the module's
\* __file__, its __version__ (None: neither __version__ nor version is set)
\* and whether it has the attribute _distribute.
Modules(pkgname) ==
    CASE pkgname = AppName ->
             {[file |-> <<"x", "src", "allmydata", "__init__.py">>, version |-> V13,
               distribute |-> FALSE]}
      [] pkgname = "Nevow" ->
             [file : {<<"lnk", "nevow", "__init__.py">>, <<"y", "nevow", "__init__.py">>},
              version : {V12, V13, VIrrational, VBreaks, None},
              distribute : {FALSE}]
      [] pkgname = "setuptools" ->
             [file : {<<"lnk", "setuptools", "__init__.py">>,
                      <<"y", "setuptools", "__init__.py">>},
              version : {V12},
              distribute : BOOLEAN]
      [] OTHER ->
             [file : {<<"lnk", "mock", "__init__.py">>, <<"y", "mock", "__init__.py">>},
              version : {None},
              distribute : {FALSE}]

-----------------------------------------------------------------------------
(* _get_package_versions_and_locations (lines 277-375).                    *)

Entry(name, ver, loc, comment) ==
    [name |-> name, ver |-> ver, loc |-> loc, comment |-> comment]

\* lines 317-318: the dict keyed by the lowercased project names
ManifestOf(dists) ==
    [k \in {Lower(n) : n \in DOMAIN dists} |->
        dists[CHOOSE n \in DOMAIN dists : Lower(n) = k]]

\* lines 320-330
get_version(module) ==
    IF module.version # None THEN module.version ELSE Unknown

\* lines 343-347
CommentOf(pkgname, module) ==
    IF pkgname = AppName THEN <<"master: 1.3">>
    ELSE IF pkgname = "setuptools" /\ module.distribute THEN <<"distribute">>
    ELSE None

\* lines 350-353: an "unknown" import version is replaced by the version
\* pkg_resources reports for the same directory
FallbackVersion(m, pkgname, ver, loc) ==
    IF ver = Unknown /\ pkgname \in DOMAIN m
    THEN IF loc = normcase(realpath(m[pkgname][2])) THEN m[pkgname][1] ELSE ver
    ELSE ver

\* lines 341-354
ImportedEntry(m, pkgname, module) ==
    LET loc == package_dir(module.file) IN
    Entry(pkgname, FallbackVersion(m, pkgname, get_version(module), loc), loc,
          CommentOf(pkgname, module))

\* lines 337-340
FailedEntry(pkgname, modulename) ==
    Entry(pkgname, None, None, <<"ImportError", "No module named", modulename, "frame">>)

\* lines 355-360
PseudoEntryOf(pkgname) ==
    CASE pkgname = "python" -> Entry(pkgname, <<"2", "7">>, <<"usr", "bin", "python">>, None)
      [] pkgname = "platform" -> Entry(pkgname, <<"Linux-x86_64">>, None, None)
      [] OTHER -> Entry(pkgname, <<"1", "0", "1">>, None, None)

\* The pairs package_imports may declare after the ones already iterated
\* over: lines 332-360 have appended one entry for each of those.
Undeclared ==
    IF Len(packages) = 1
    THEN ModulePackages \cup PseudoPackages
    ELSE {n \in ModulePackages \cup PseudoPackages :
            Position(n) > Position(packages[Len(packages)].name)}

\* lines 310-318
BuildManifest ==
    /\ pc = "start"
    /\ \/ \* hasattr(sys, 'frozen')
          pkg_resources_vers_and_locs' = ManifestOf(<<>>)
       \/ \E dists \in RequireResults :
             pkg_resources_vers_and_locs' = ManifestOf(dists)
    /\ packages' = <<>>
    /\ pc' = "imports"
    /\ UNCHANGED <<extra_packages, pr_seen, idx, errors, norm_calls, cross_check_errors,
                   _vers_and_locs_list, _cross_check_errors, ret>>

\* One iteration of the loop at line 332 whose module is imported (336-354).
\* The first iteration is (__appname__, 'allmydata').
ImportSucceeds ==
    /\ pc = "imports"
    /\ Len(packages) <= MaxDeps
    /\ \E pkgname \in (IF packages = <<>> THEN {AppName} ELSE ModulePackages \cap Undeclared) :
         \E module \in Modules(pkgname) :
            packages' = Append(packages,
                               ImportedEntry(pkg_resources_vers_and_locs, pkgname, module))
    /\ UNCHANGED <<pc, pkg_resources_vers_and_locs, extra_packages, pr_seen, idx, errors,
                   norm_calls, cross_check_errors, _vers_and_locs_list,
                   _cross_check_errors, ret>>

\* One iteration of the loop at line 332 whose import raises ImportError.
ImportFails ==
    /\ pc = "imports"
    /\ packages # <<>>
    /\ Len(packages) <= MaxDeps
    /\ \E pkgname \in ModulePackages \cap Undeclared :
         packages' = Append(packages, FailedEntry(pkgname, Lower(pkgname)))
    /\ UNCHANGED <<pc, pkg_resources_vers_and_locs, extra_packages, pr_seen, idx, errors,
                   norm_calls, cross_check_errors, _vers_and_locs_list,
                   _cross_check_errors, ret>>

\* One iteration of the loop at line 332 for an entry without a module.
PseudoEntry ==
    /\ pc = "imports"
    /\ packages # <<>>
    /\ Len(packages) <= MaxDeps
    /\ \E pkgname \in PseudoPackages \cap Undeclared :
         packages' = Append(packages, PseudoEntryOf(pkgname))
    /\ UNCHANGED <<pc, pkg_resources_vers_and_locs, extra_packages, pr_seen, idx, errors,
                   norm_calls, cross_check_errors, _vers_and_locs_list,
                   _cross_check_errors, ret>>

\* lines 362-366: the loop at 332 is over
EndImports ==
    /\ pc = "imports"
    /\ packages # <<>>
    /\ cross_check_errors' = <<>>
    /\ IF DOMAIN pkg_resources_vers_and_locs # {}
       THEN /\ pc' = "extras"
            /\ extra_packages' = <<>>
            /\ pr_seen' = {}
       ELSE /\ pc' = "return"
            /\ UNCHANGED <<extra_packages, pr_seen>>
    /\ UNCHANGED <<pkg_resources_vers_and_locs, packages, idx, errors, norm_calls,
                   _vers_and_locs_list, _cross_check_errors, ret>>

\* line 365
imported_packages == {Lower(packages[i].name) : i \in 1..Len(packages)}

\* IsExtra with the allow-list test the wrong way round
IsExtraIgnorableOnly(pr_name) ==
    pr_name \notin imported_packages /\ pr_name \in ignorable

\* line 369
IsExtra(pr_name) == pr_name \notin imported_packages /\ pr_name \notin ignorable

\* lines 368-370: one iteration over pkg_resources_vers_and_locs.iteritems(),
\* which yields the keys in an arbitrary order
ExtraStep ==
    /\ pc = "extras"
    /\ \E pr_name \in DOMAIN pkg_resources_vers_and_locs \ pr_seen :
         /\ pr_seen' = pr_seen \cup {pr_name}
         /\ extra_packages' =
              IF IsExtra(pr_name)
              THEN Append(extra_packages,
                          Entry(pr_name, pkg_resources_vers_and_locs[pr_name][1],
                                pkg_resources_vers_and_locs[pr_name][2],
                                <<"according to pkg_resources">>))
              ELSE extra_packages
    /\ UNCHANGED <<pc, pkg_resources_vers_and_locs, packages, idx, errors, norm_calls,
                   cross_check_errors, _vers_and_locs_list, _cross_check_errors, ret>>

\* line 372, entering _cross_check (lines 93-94)
CrossCheckCall ==
    /\ pc = "extras"
    /\ pr_seen = DOMAIN pkg_resources_vers_and_locs
    /\ pc' = "cross_check"
    /\ idx' = 1
    /\ errors' = <<>>
    /\ norm_calls' = <<>>
    /\ UNCHANGED <<pkg_resources_vers_and_locs, packages, extra_packages, pr_seen,
                   cross_check_errors, _vers_and_locs_list, _cross_check_errors, ret>>

\* lines 96-156: one iteration of _cross_check's loop; an exception that
\* escapes it ends the import of the module
CrossCheckStep ==
    /\ pc = "cross_check"
    /\ idx <= Len(packages)
    /\ LET o == CrossCheckEntry(pkg_resources_vers_and_locs, packages[idx]) IN
         /\ errors' = errors \o o.errs
         /\ norm_calls' = norm_calls \o o.calls
         /\ pc' = IF o.raised THEN "raised" ELSE pc
         /\ idx' = IF o.raised THEN idx ELSE idx + 1
    /\ UNCHANGED <<pkg_resources_vers_and_locs, packages, extra_packages, pr_seen,
                   cross_check_errors, _vers_and_locs_list, _cross_check_errors, ret>>

\* lines 158 and 372-373
CrossCheckReturn ==
    /\ pc = "cross_check"
    /\ idx > Len(packages)
    /\ cross_check_errors' = errors
    /\ packages' = packages \o extra_packages
    /\ pc' = "return"
    /\ UNCHANGED <<pkg_resources_vers_and_locs, extra_packages, pr_seen, idx, errors,
                   norm_calls, _vers_and_locs_list, _cross_check_errors, ret>>

\* lines 375 and 378
ModuleAssign ==
    /\ pc = "return"
    /\ _vers_and_locs_list' = packages
    /\ _cross_check_errors' = cross_check_errors
    /\ pc' = "done"
    /\ UNCHANGED <<pkg_resources_vers_and_locs, packages, extra_packages, pr_seen, idx,
                   errors, norm_calls, cross_check_errors, ret>>

-----------------------------------------------------------------------------
(* The accessors (lines 32-50 and 73-86).                                  *)

\* line 33: dict([(k, v) ...]) keeps, for a repeated key, the last pair
VersionsDict(l) ==
    [k \in {l[i].name : i \in 1..Len(l)} |->
        l[CHOOSE i \in 1..Len(l) :
             /\ l[i].name = k
             /\ \A j \in 1..Len(l) : l[j].name = k => j <= i].ver]

\* lines 38-42: "name: version", then " [comment]" if the comment is true,
\* then " (location)" if show_paths
ReportLine(e, show_paths) ==
    <<<<e.name>>, e.ver>>
    \o (IF e.comment # None THEN <<e.comment>> ELSE <<>>)
    \o (IF show_paths THEN <<e.loc>> ELSE <<>>)

\* lines 73-86
_get_error_string(errs, debug) ==
    [msg |-> errs, debugging_info |-> debug]

\* lines 35-50
ReportOf(l, errs, show_paths, debug) ==
    [res |-> [i \in 1..Len(l) |-> ReportLine(l[i], show_paths)],
     errors |-> IF errs # <<>> THEN <<_get_error_string(errs, debug)>> ELSE <<>>]

\* lines 32-33
get_package_versions ==
    /\ pc = "done"
    /\ ret' = [call |-> "get_package_versions",
               value |-> VersionsDict(_vers_and_locs_list)]
    /\ UNCHANGED <<pc, pkg_resources_vers_and_locs, packages, extra_packages, pr_seen, idx,
                   errors, norm_calls, cross_check_errors, _vers_and_locs_list,
                   _cross_check_errors>>

\* get_package_versions_string that empties the warning list it reported
get_package_versions_string_consuming(show_paths, debug) ==
    /\ pc = "done"
    /\ ret' = [call |-> "get_package_versions_string",
               value |-> ReportOf(_vers_and_locs_list, _cross_check_errors,
                                  show_paths, debug)]
    /\ _cross_check_errors' = <<>>
    /\ UNCHANGED <<pc, pkg_resources_vers_and_locs, packages, extra_packages, pr_seen, idx,
                   errors, norm_calls, cross_check_errors, _vers_and_locs_list>>

\* lines 35-50
get_package_versions_string(show_paths, debug) ==
    /\ pc = "done"
    /\ ret' = [call |-> "get_package_versions_string",
               value |-> ReportOf(_vers_and_locs_list, _cross_check_errors,
                                  show_paths, debug)]
    /\ UNCHANGED <<pc, pkg_resources_vers_and_locs, packages, extra_packages, pr_seen, idx,
                   errors, norm_calls, cross_check_errors, _vers_and_locs_list,
                   _cross_check_errors>>

-----------------------------------------------------------------------------

\* The process before "import allmydata.version_checks" runs line 378.
Init ==
    /\ pc = "start"
    /\ pkg_resources_vers_and_locs = <<>>
    /\ packages = <<>>
    /\ extra_packages = <<>>
    /\ pr_seen = {}
    /\ idx = 1
    /\ errors = <<>>
    /\ norm_calls = <<>>
    /\ cross_check_errors = <<>>
    /\ _vers_and_locs_list = <<>>
    /\ _cross_check_errors = <<>>
    /\ ret = [call |-> "none", value |-> <<>>]

Next ==
    \/ BuildManifest
    \/ ImportSucceeds
    \/ ImportFails
    \/ PseudoEntry
    \/ EndImports
    \/ ExtraStep
    \/ CrossCheckCall
    \/ CrossCheckStep
    \/ CrossCheckReturn
    \/ ModuleAssign
    \/ get_package_versions
    \/ \E show_paths \in BOOLEAN, debug \in BOOLEAN :
          get_package_versions_string(show_paths, debug)

Spec == Init /\ [][Next]_vars

-----------------------------------------------------------------------------
(* Vocabulary of the properties below.  It is stated on the values in the  *)
(* two catalogs, not through the operators of _cross_check.                *)

\* _cross_check is about to run its loop body on packages[idx]
Checking == pc = "cross_check" /\ idx <= Len(packages)

\* _cross_check has run its loop body on packages[i]
Checked(i) == pc \in {"cross_check", "return", "done"} /\ i < idx /\ i <= Len(packages)

KeyOf(i) == Lower(packages[i].name)
Checkable(i) == KeyOf(i) \notin {"python", "platform", "tahoe-lafs", "openssl"}
InManifest(i) == KeyOf(i) \in DOMAIN pkg_resources_vers_and_locs
PrVer(i) == pkg_resources_vers_and_locs[KeyOf(i)][1]
PrLoc(i) == pkg_resources_vers_and_locs[KeyOf(i)][2]
ImpVer(i) == packages[i].ver
ImpLoc(i) == packages[i].loc
FailedImport(i) == ImpVer(i) = None /\ ImpLoc(i) = None

Resolved(loc) == normpath(realpath(loc))
Parses(verstr) == VerlibParse(verstr).kind = "ok"
Normal(verstr) == VerlibParse(verstr).norm

\* what the step from this state to the next appends
NewErrors == SubSeq(errors', Len(errors) + 1, Len(errors'))
NewCalls == SubSeq(norm_calls', Len(norm_calls) + 1, Len(norm_calls'))
\* the loop goes on with the next entry
GoesOn == pc' = "cross_check" /\ idx' = idx + 1

\* the entry reaches the comparison of line 152
ReachesComparison(i) ==
    /\ Checkable(i) /\ InManifest(i) /\ ~FailedImport(i)
    /\ ~(ImpVer(i) # Unknown /\ ImpVer(i) = PrVer(i))
    /\ Parses(PrVer(i))
    /\ ImpVer(i) # Unknown
    /\ Parses(ImpVer(i))

-----------------------------------------------------------------------------
\* C1 (as claimed): a checkable entry present in the manifest whose import did
\* not fail and whose import and manifest version strings are identical
\* produces no warning and does not invoke the normalizer.
C1_AnyIdenticalStrings ==
    [][(Checking /\ Checkable(idx) /\ InManifest(idx) /\ ~FailedImport(idx)
          /\ ImpVer(idx) = PrVer(idx))
        => (NewErrors = <<>> /\ NewCalls = <<>> /\ GoesOn)]_vars

\* C1 (amended): a checkable entry present in the manifest whose import did
\* not fail, whose import version string is not "unknown" and is identical to
\* the manifest version string, produces no warning, at any two locations and
\* parsable or not, and the normalizer is not invoked for it.
C1_IdenticalStringsShortCircuit ==
    [][(Checking /\ Checkable(idx) /\ InManifest(idx) /\ ~FailedImport(idx)
          /\ ImpVer(idx) # Unknown /\ ImpVer(idx) = PrVer(idx))
        => (NewErrors = <<>> /\ NewCalls = <<>> /\ GoesOn)]_vars

\* An unparsable version string, identical in both catalogs, at two
\* different locations, has been cross-checked without a warning.
C1_Witness ==
    \E i \in 1..Len(packages) :
        /\ Checked(i) /\ Checkable(i) /\ InManifest(i)
        /\ ImpVer(i) = VIrrational /\ PrVer(i) = VIrrational
        /\ Resolved(ImpLoc(i)) # Resolved(PrLoc(i))
        /\ idx = i + 1 /\ errors = <<>> /\ norm_calls = <<>>

\* C2 (as claimed): every checkable entry whose import failed yields exactly
\* one warning, the "could not be imported" one, and no later check.
C2_AnyFailedImport ==
    [][(Checking /\ Checkable(idx) /\ FailedImport(idx))
        => (/\ Len(NewErrors) = 1
            /\ NewErrors[1].kind = "could_not_be_imported"
            /\ NewCalls = <<>>
            /\ GoesOn)]_vars

\* C2 (amended): every checkable entry present in the manifest whose import
\* failed yields exactly one warning, the "could not be imported" one naming
\* the entry, and no later check is applied to it.
C2_FailedImportInManifest ==
    [][(Checking /\ Checkable(idx) /\ InManifest(idx) /\ FailedImport(idx))
        => (/\ Len(NewErrors) = 1
            /\ NewErrors[1].kind = "could_not_be_imported"
            /\ NewErrors[1].name = KeyOf(idx)
            /\ NewCalls = <<>>
            /\ GoesOn)]_vars

\* A failed import of a package the manifest knows has been cross-checked.
C2_Witness ==
    \E i \in 1..Len(packages) :
        /\ Checked(i) /\ Checkable(i) /\ InManifest(i) /\ FailedImport(i)
        /\ idx = i + 1
        /\ errors # <<>> /\ errors[Len(errors)].kind = "could_not_be_imported"

\* C3 (as claimed): parsable, non-"unknown" versions with unequal normalized
\* forms always give a mismatch warning, whatever the locations.
C3_UnequalAlwaysWarns ==
    [][(Checking /\ ReachesComparison(idx) /\ PrVer(idx) # Unknown
          /\ Normal(PrVer(idx)) # Normal(ImpVer(idx)))
        => (Len(NewErrors) = 1 /\ NewErrors[1].kind = "version_mismatch")]_vars

\* C3 (amended): parsable, non-"unknown" versions with unequal normalized
\* forms give exactly one mismatch warning when the two locations resolve to
\* different paths, and no warning when they resolve to the same path.
C3_UnequalWarnsUnlessSameLocation ==
    [][(Checking /\ ReachesComparison(idx) /\ PrVer(idx) # Unknown
          /\ Normal(PrVer(idx)) # Normal(ImpVer(idx)))
        => (/\ GoesOn
            /\ IF Resolved(PrLoc(idx)) # Resolved(ImpLoc(idx))
               THEN /\ Len(NewErrors) = 1
                    /\ NewErrors[1].kind = "version_mismatch"
                    /\ NewErrors[1].name = KeyOf(idx)
               ELSE NewErrors = <<>>)]_vars

\* Import "1.2" against manifest "1.3" at the same resolved location, reached
\* through a symbolic link, has been cross-checked without a warning.
C3_Witness ==
    \E i \in 1..Len(packages) :
        /\ Checked(i) /\ Checkable(i) /\ InManifest(i)
        /\ ImpVer(i) = V12 /\ PrVer(i) = V13
        /\ ImpLoc(i) # PrLoc(i)
        /\ Resolved(ImpLoc(i)) = Resolved(PrLoc(i))
        /\ idx = i + 1 /\ errors = <<>>

\* C4: an entry that reaches the final comparison gets a mismatch warning if
\* and only if (the manifest version is "unknown" or the normalized versions
\* are unequal) and the resolved locations differ; with the same resolved
\* location it gets none.
C4_MismatchIff ==
    [][(Checking /\ ReachesComparison(idx))
        => (/\ GoesOn
            /\ Len(NewErrors) <= 1
            /\ \A k \in 1..Len(NewErrors) : NewErrors[k].kind = "version_mismatch"
            /\ (NewErrors # <<>>) <=>
                 (/\ \/ PrVer(idx) = Unknown
                     \/ Normal(PrVer(idx)) # Normal(ImpVer(idx))
                  /\ Resolved(PrLoc(idx)) # Resolved(ImpLoc(idx))))]_vars

\* Strings that differ but normalize to the same version ("1.2", "1.2.0"),
\* at different locations, have been cross-checked without a warning.
C4_Witness ==
    \E i \in 1..Len(packages) :
        /\ Checked(i) /\ Checkable(i) /\ InManifest(i)
        /\ ImpVer(i) = V12 /\ PrVer(i) = V120
        /\ Resolved(ImpLoc(i)) # Resolved(PrLoc(i))
        /\ idx = i + 1 /\ errors = <<>> /\ norm_calls = <<V120, V12>>

\* C5: a checkable entry whose lowercased name is not in the manifest, other
\* than 'setuptools' with 'distribute' in the manifest, gets exactly one "was
\* not found by pkg_resources" warning and nothing else: no normalization, no
\* "unknown version" warning even when its import version is "unknown".
C5_NotFoundIsTerminal ==
    [][(Checking /\ Checkable(idx) /\ ~InManifest(idx)
          /\ ~(KeyOf(idx) = "setuptools"
               /\ "distribute" \in DOMAIN pkg_resources_vers_and_locs))
        => (/\ Len(NewErrors) = 1
            /\ NewErrors[1].kind = "not_found_by_pkg_resources"
            /\ NewErrors[1].name = KeyOf(idx)
            /\ NewCalls = <<>>
            /\ GoesOn)]_vars

\* An entry imported with version "unknown" and absent from the manifest has
\* been cross-checked, and the one warning is the "not found" one.
C5_Witness ==
    \E i \in 1..Len(packages) :
        /\ Checked(i) /\ Checkable(i) /\ ~InManifest(i)
        /\ ImpVer(i) = Unknown /\ ImpLoc(i) # None
        /\ DOMAIN pkg_resources_vers_and_locs # {}
        /\ idx = i + 1
        /\ Len(errors) = 1 /\ errors[1].kind = "not_found_by_pkg_resources"

\* C6: 'setuptools' absent from the manifest, 'distribute' present at a
\* location that resolves to the import location of setuptools, and the
\* import comment "distribute": no warning for the setuptools entry.
C6_SetuptoolsIsDistribute ==
    [][(/\ Checking
        /\ KeyOf(idx) = "setuptools"
        /\ ~InManifest(idx)
        /\ "distribute" \in DOMAIN pkg_resources_vers_and_locs
        /\ ImpLoc(idx) # None
        /\ Resolved(pkg_resources_vers_and_locs["distribute"][2]) = Resolved(ImpLoc(idx))
        /\ packages[idx].comment = <<"distribute">>)
        => (NewErrors = <<>> /\ NewCalls = <<>> /\ GoesOn)]_vars

\* Such a setuptools entry, whose manifest location is a symbolic link to the
\* import location, has been cross-checked without a warning.
C6_Witness ==
    \E i \in 1..Len(packages) :
        /\ Checked(i) /\ KeyOf(i) = "setuptools" /\ ~InManifest(i)
        /\ "distribute" \in DOMAIN pkg_resources_vers_and_locs
        /\ pkg_resources_vers_and_locs["distribute"][2] # ImpLoc(i)
        /\ Resolved(pkg_resources_vers_and_locs["distribute"][2]) = Resolved(ImpLoc(i))
        /\ packages[i].comment = <<"distribute">>
        /\ idx = i + 1 /\ errors = <<>>

\* C7: with a non-empty manifest, once the catalog is built every manifest
\* name that is no lowercased import name and is not ignorable is exactly one
\* entry of _vers_and_locs_list, placed after all import entries, with the
\* manifest's version and location and the comment "according to
\* pkg_resources", whatever the order the manifest was iterated in; the
\* cross-check ran over the import entries only, and no warning names an
\* extra entry.
C7_ExtrasReportedOnce ==
    (pc = "done" /\ DOMAIN pkg_resources_vers_and_locs # {}) =>
        LET l == _vers_and_locs_list
            n == Len(l) - Len(extra_packages)
            imported == {Lower(l[i].name) : i \in 1..n}
        IN  /\ idx = n + 1
            /\ \A k \in DOMAIN pkg_resources_vers_and_locs :
                 (k \notin imported /\ k \notin {"distribute", "pyutil"}) =>
                    /\ \E i \in (n + 1)..Len(l) :
                          l[i] = [name |-> k,
                                  ver |-> pkg_resources_vers_and_locs[k][1],
                                  loc |-> pkg_resources_vers_and_locs[k][2],
                                  comment |-> <<"according to pkg_resources">>]
                    /\ Cardinality({i \in 1..Len(l) : l[i].name = k}) = 1
            /\ \A j \in 1..Len(_cross_check_errors) :
                 _cross_check_errors[j].name \in imported

\* Two extras have been reported, in the order opposite to the alphabetical
\* one, next to an import entry that got a warning.
C7_Witness ==
    /\ pc = "done"
    /\ Len(extra_packages) = 2
    /\ extra_packages[1].name = "pycparser"
    /\ extra_packages[2].name = "nevow"
    /\ Len(_vers_and_locs_list) = 4
    /\ _vers_and_locs_list[4].name = "nevow"
    /\ _cross_check_errors # <<>>

\* normalized_version fails on the manifest version of packages[i], or, that
\* one parsed and the import version not being "unknown", on the import
\* version
NormalizationFails(i) ==
    /\ Checkable(i) /\ InManifest(i) /\ ~FailedImport(i)
    /\ ~(ImpVer(i) # Unknown /\ ImpVer(i) = PrVer(i))
    /\ \/ ~Parses(PrVer(i))
       \/ ImpVer(i) # Unknown /\ ~Parses(ImpVer(i))

FailingVersion(i) == IF ~Parses(PrVer(i)) THEN PrVer(i) ELSE ImpVer(i)

\* C8: a normalization failure never aborts _cross_check.  An entry whose
\* manifest or import version fails to normalize as irrational yields no
\* warning; one that fails with another exception yields exactly one "could
\* not be parsed" warning naming the version, the dependency and the
\* exception; either way the loop goes on with the next entry.  The only
\* exception that leaves _cross_check is raised on a failed setuptools import
\* with 'distribute' in the manifest (line 102), never on such an entry.
C8_NormalizationFailureRecovered ==
    /\ [][(Checking /\ NormalizationFails(idx))
           => (/\ GoesOn
               /\ IF VerlibParse(FailingVersion(idx)).kind = "irrational"
                  THEN NewErrors = <<>>
                  ELSE /\ Len(NewErrors) = 1
                       /\ NewErrors[1].kind \in
                            {"pr_version_unparsable", "imp_version_unparsable"}
                       /\ NewErrors[1].name = KeyOf(idx)
                       /\ NewErrors[1].args[1] = FailingVersion(idx)
                       /\ NewErrors[1].args[5][1] =
                            VerlibParse(FailingVersion(idx)).exc[1])]_vars
    /\ [](pc = "raised" =>
            /\ KeyOf(idx) = "setuptools"
            /\ FailedImport(idx)
            /\ ~InManifest(idx))

\* The build is over: an entry whose manifest version failed to normalize
\* with another exception got the "could not be parsed" warning, and a later
\* entry was cross-checked and got its own warning.
C8_Witness ==
    /\ pc = "done"
    /\ \E i \in 1..Len(packages) :
         /\ Checked(i) /\ NormalizationFails(i)
         /\ \E j \in (i + 1)..Len(packages) :
              /\ Checked(j) /\ Checkable(j)
              /\ Len(_cross_check_errors) = 2
              /\ _cross_check_errors[1].kind = "pr_version_unparsable"
              /\ _cross_check_errors[1].name = KeyOf(i)
              /\ _cross_check_errors[2].name = KeyOf(j)

\* C9 (as claimed): a checkable entry present in the manifest and imported
\* with version "unknown" gets exactly one "could not find a version number"
\* warning when its name is not import-versionable-exempt and nothing when it
\* is; "unknown" is not normalized and gives no mismatch warning.
C9_AnyUnknownImportVersion ==
    [][(Checking /\ Checkable(idx) /\ InManifest(idx) /\ ImpVer(idx) = Unknown)
        => (/\ GoesOn
            /\ Len(NewCalls) <= 1
            /\ IF KeyOf(idx) \in {"mock", "pyasn1"}
               THEN NewErrors = <<>>
               ELSE /\ Len(NewErrors) = 1
                    /\ NewErrors[1].kind = "could_not_find_version")]_vars

\* C9 (amended): a checkable entry present in the manifest and imported with
\* version "unknown" has at most its manifest version normalized and never
\* gets a mismatch warning; when the manifest version normalizes, it gets
\* exactly one "could not find a version number" warning if its name is not
\* in not_import_versionable and nothing if it is.
C9_UnknownImportVersion ==
    [][(Checking /\ Checkable(idx) /\ InManifest(idx) /\ ImpVer(idx) = Unknown)
        => (/\ GoesOn
            /\ NewCalls = <<PrVer(idx)>>
            /\ \A k \in 1..Len(NewErrors) : NewErrors[k].kind # "version_mismatch"
            /\ Parses(PrVer(idx)) =>
                 IF KeyOf(idx) \in {"mock", "pyasn1"}
                 THEN NewErrors = <<>>
                 ELSE /\ Len(NewErrors) = 1
                      /\ NewErrors[1].kind = "could_not_find_version"
                      /\ NewErrors[1].name = KeyOf(idx))]_vars

\* An exempt entry imported with version "unknown" from a directory other
\* than the manifest's has been cross-checked without a warning, after an
\* entry that is not exempt got the warning.
C9_Witness ==
    \E i \in 1..Len(packages) :
        /\ Checked(i) /\ InManifest(i) /\ ImpVer(i) = Unknown
        /\ KeyOf(i) = "mock" /\ Parses(PrVer(i))
        /\ idx = i + 1
        /\ Len(errors) = 1
        /\ errors[1].kind = "could_not_find_version"
        /\ errors[1].name = "nevow"

\* what get_package_versions returned is the name -> version mapping of the
\* catalog as it is now
DictObserved ==
    /\ DOMAIN ret.value = {_vers_and_locs_list[i].name : i \in 1..Len(_vers_and_locs_list)}
    /\ \A i \in 1..Len(_vers_and_locs_list) :
         ret.value[_vers_and_locs_list[i].name] = _vers_and_locs_list[i].ver

\* what get_package_versions_string returned renders the catalog and the
\* warning list as they are now
ReportObserved ==
    /\ Len(ret.value.res) = Len(_vers_and_locs_list)
    /\ \A i \in 1..Len(_vers_and_locs_list) :
         /\ ret.value.res[i][1] = <<_vers_and_locs_list[i].name>>
         /\ ret.value.res[i][2] = _vers_and_locs_list[i].ver
    /\ IF _cross_check_errors = <<>>
       THEN ret.value.errors = <<>>
       ELSE /\ Len(ret.value.errors) = 1
            /\ ret.value.errors[1].msg = _cross_check_errors

\* C10: _vers_and_locs_list and _cross_check_errors are assigned once, by the
\* one run of _get_package_versions_and_locations, and never change after
\* it: no call of get_package_versions or get_package_versions_string, with
\* any flags and in any order, changes them or starts a rebuild, and what a
\* call returns is computed from that same snapshot.
C10_SnapshotBuiltOnce ==
    /\ [][pc = "done" =>
            /\ pc' = "done"
            /\ _vers_and_locs_list' = _vers_and_locs_list
            /\ _cross_check_errors' = _cross_check_errors]_vars
    /\ [][(\/ _vers_and_locs_list' # _vers_and_locs_list
           \/ _cross_check_errors' # _cross_check_errors)
          => (pc = "return" /\ pc' = "done")]_vars
    /\ [](ret.call = "get_package_versions" => (pc = "done" /\ DictObserved))
    /\ [](ret.call = "get_package_versions_string" => (pc = "done" /\ ReportObserved))

\* A report with warnings and paths has been returned, after the build gave
\* a catalog with an extra entry.
C10_Witness ==
    /\ pc = "done"
    /\ ret.call = "get_package_versions_string"
    /\ Len(ret.value.res[1]) = 4
    /\ _cross_check_errors # <<>>
    /\ ret.value.errors[1].debugging_info
    /\ extra_packages # <<>>

\* every key of the manifest catalog is lowercase
ManifestKeysLowercase ==
    \A k \in DOMAIN pkg_resources_vers_and_locs : Lower(k) = k

\* packages[i] was imported from the directory the manifest reports for its
\* lowercased name
ImportedFromManifestLocation(i) ==
    /\ InManifest(i)
    /\ ImpLoc(i) # None
    /\ ImpLoc(i) = normcase(realpath(PrLoc(i)))

\* the lookup of lines 350-353 matched every entry to the manifest entry of
\* its lowercased name: an import version "unknown" was replaced by the
\* manifest version (which may itself be "unknown")
FallbackMatchesLowercased ==
    \A i \in 1..Len(packages) :
        (ImportedFromManifestLocation(i) /\ ImpVer(i) = Unknown) => PrVer(i) = Unknown

\* the extra-package computation matched every imported entry to the manifest
\* entry of its lowercased name: that name is not reported as an extra
ExtrasMatchLowercased ==
    pc \in {"extras", "cross_check"} =>
        \A j \in 1..Len(extra_packages) :
            extra_packages[j].name \notin {KeyOf(i) : i \in 1..Len(packages)}

\* _cross_check matched the entry to the manifest entry of its lowercased
\* name: it did not take the branch of lines 99-111
CrossCheckMatchesLowercased ==
    (Checking /\ Checkable(idx) /\ InManifest(idx)) =>
        \A k \in 1..Len(NewErrors) :
            NewErrors[k].kind \notin {"not_found_by_pkg_resources",
                                      "setuptools_is_distribute_elsewhere"}

\* C11: every key of the manifest catalog is lowercase, and _cross_check, the
\* extra-package computation and the fallback that replaces an "unknown"
\* import version by the manifest version all look the lowercased package
\* name up, so that a dependency declared with a mixed-case name is matched
\* to its manifest entry in each of them.
C11_LowercasedLookups ==
    /\ []ManifestKeysLowercase
    /\ []FallbackMatchesLowercased
    /\ []ExtrasMatchLowercased
    /\ [][CrossCheckMatchesLowercased]_vars

====
